---- MODULE Spec2Model ----
(***************************************************************************)
(* ksl_notify.py: the poll loop of main(), one pass of check_ksl() over    *)
(* the configured queries, the report builder gather_report(), and the     *)
(* exception accounting of the loop (exception_count, exception_thresh,    *)
(* the fatal threshold).                                                   *)
(*                                                                         *)
(* A listing is represented by its link: link is the only field of a       *)
(* result that gather_report() tests, and the only one stored.  A report   *)
(* is the sequence of the blocks appended to it; every block starts with   *)
(* 25 ASCII asterisks, so the ASCII filter of line 93 never empties a      *)
(* block and "if report" (line 109) is "at least one block".               *)
(***************************************************************************)
EXTENDS Integers, Sequences, FiniteSets, TLC

VARIABLES
    queries,          \* main: the list of queries (lines 174-179)
    seen,             \* main: dict query -> list of links (line 171)
    exception_thresh, \* main: line 180
    exception_count,  \* main: line 181
    pc,               \* where main is: "check_ksl", "sleep" or "terminated"
    qi,               \* check_ksl: position of the for loop of line 102
    raised,           \* the exception that left main(), "none" while it runs
    env,              \* the environment: the links the backend can return, the
                      \* bounds of the run, and the history variables kept
    last,             \* history: what the last step did
    streak,           \* history: the current run of clean passes
    offered,          \* history: per query, the links of the batches fetched so far
    call,             \* gather_report called by itself: its arguments and results
    hist              \* history: alert attempts made, links sent and not sent

vars == <<queries, seen, exception_thresh, exception_count, pc, qi, raised,
          env, last, streak, offered, call, hist>>

-----------------------------------------------------------------------------
(* Bounds of the model *)

\* longest batch find_elements() returns in the specification Spec
MaxBatch == 2
\* longest batch in the specification SpecClean
MaxBatchClean == 3
\* SpecAcct: no pass starts with exception_count above this value.
\* FairAcct: the counts above MaxCount + Penalty are kept as MaxCount + Penalty
MaxCount == 120
\* no pass starts with exception_count above this value (Spec)
MaxCountData == 10
\* longest run of clean passes followed by the history variable streak
MaxStreak == 3
\* longest batch in the specification SpecSend
MaxBatchSend == 2
\* longest batch and longest sequence passed to gather_report in SpecGather
MaxGather == 3

(* Constants of the program *)

\* weight of one caught exception (lines 199, 202)
Penalty == 10
\* the count above which the loop re-raises (line 216)
FatalThreshold == 100
\* exception_thresh is the setting times this (line 180)
ThreshFactor == 10
\* default of --emailexceptions (line 286)
DefaultEmailExceptions == 5

-----------------------------------------------------------------------------
(* Helpers *)

Range(s) == {s[i] : i \in 1..Len(s)}

Max(a, b) == IF a >= b THEN a ELSE b

\* all sequences over S of length at most n
SeqsUpTo(S, n) == UNION {[1..k -> S] : k \in 0..n}

\* s is t or a beginning of t
IsPrefix(s, t) == Len(s) <= Len(t) /\ \A i \in 1..Len(s) : s[i] = t[i]

\* number of positions of s holding x
Occurrences(s, x) == Cardinality({i \in 1..Len(s) : s[i] = x})

-----------------------------------------------------------------------------
(* gather_report, lines 81-96 *)

\* the formatted block of one result (lines 86-93)
Block(link) == <<"*************************", link>>

\* the link a block was formatted from
LinkOf(block) == block[2]

\* line 85, as a bug would have it: compares with the last stored link only
NotInSeen_LastOnly(link, seen_q) ==
    seen_q = <<>> \/ link # seen_q[Len(seen_q)]

\* line 85: result.link not in seen
NotInSeen(link, seen_q) == link \notin Range(seen_q)

\* the for loop of lines 84-95: query_result is what is left of the batch,
\* seen_q the sequence passed in, report and new_seen the accumulators
RECURSIVE gather_loop(_, _, _, _)
gather_loop(query_result, seen_q, report, new_seen) ==
    IF query_result = <<>>
    THEN [report |-> report, new_seen |-> new_seen]
    ELSE LET result == Head(query_result)
         IN  IF NotInSeen(result, seen_q)
             THEN gather_loop(Tail(query_result), seen_q,
                              Append(report, Block(result)),
                              Append(new_seen, result))
             ELSE gather_loop(Tail(query_result), seen_q, report, new_seen)

\* line 83, as a bug would have it: new_seen = []
gather_report_FromEmpty(query_result, seen_q) ==
    gather_loop(query_result, seen_q, <<>>, <<>>)

\* lines 82-83 and 96: report = "", new_seen = seen.copy(), the loop, the return
gather_report(query_result, seen_q) ==
    gather_loop(query_result, seen_q, <<>>, seen_q)

\* line 83, as a bug would have it: new_seen = seen, the same list
SeenArgAfter_Alias(seen_q, new_seen) == new_seen

\* the content of the list passed in, after the call: line 83 copies it and
\* line 95 appends to the copy
SeenArgAfter(seen_q, new_seen) == seen_q

-----------------------------------------------------------------------------
(* check_ksl, lines 99-116: the seen dictionary *)

\* seen[query], and the empty list for a query with no key yet (what lines
\* 103-104 make of it)
SeenOf(s, query) == IF query \in DOMAIN s THEN s[query] ELSE <<>>

\* lines 103-104: if query not in seen: seen[query] = []
WithKey(s, query) == IF query \in DOMAIN s THEN s ELSE (query :> <<>>) @@ s

\* line 115: seen[query] = new_seen_list
Store(s, query, new_seen_list) == (query :> new_seen_list) @@ s

\* line 110, as a bug would have it: the whole length
NewCount_Whole(new_seen_list, seen_q) == Len(new_seen_list)

\* line 110: count = len(new_seen_list) - len(seen[query])
NewCount(new_seen_list, seen_q) == Len(new_seen_list) - Len(seen_q)

-----------------------------------------------------------------------------
(* main, lines 183-219: the accounting *)

\* lines 190-191, as a bug would have it: decrement without the test
OnSuccess_NoFloor(count) == count - 1

\* lines 190-191: if exception_count > 0: exception_count -= 1
OnSuccess(count) == IF count > 0 THEN count - 1 ELSE count

\* line 199, as a bug would have it: weight 1
OnSoftError_One(count) == count + 1

\* line 199: exception_count += 10
OnSoftError(count) == count + Penalty

\* line 202: exception_count += 10
OnHardError(count) == count + Penalty

\* line 205, as a bug would have it: >=
AlertDue_AtThresh(count, thresh) == count >= thresh

\* line 205, as a bug would have it: the count before line 202 is compared
AlertDue_Late(count, thresh) == count - Penalty > thresh

\* line 205: if exception_count > exception_thresh
AlertDue(count, thresh) == count > thresh

\* line 216, as a bug would have it: >=
Fatal_AtThreshold(count) == count >= FatalThreshold

\* line 216: if exception_count > 100
Fatal(count) == count > FatalThreshold

\* exception_count is an unbounded Python int.  A specification with
\* env.saturate keeps the counts up to Ceiling exactly and lets Ceiling stand
\* for every count from Ceiling on; Ceiling is above every value the program
\* compares the count with (exception_thresh, 100), so lines 205 and 216 decide
\* the same for all the counts it stands for.  The other specifications keep
\* the count exactly and start no pass above env.maxCount.
Ceiling == env.maxCount + Penalty

Kept(count) == IF env.saturate /\ count > Ceiling THEN Ceiling ELSE count

\* the counts lines 190-191 can leave: one less than a count Ceiling stands
\* for is Ceiling - 1 or is still a count Ceiling stands for
AfterSuccess(count) ==
    IF env.saturate /\ count = Ceiling
    THEN {OnSuccess(count), Ceiling}
    ELSE {OnSuccess(count)}

-----------------------------------------------------------------------------
(* History variables: they record what the steps did and are read by no guard *)

\* the record of a step that fetched nothing and sent nothing
NoStep(op, stage) ==
    [op |-> op, stage |-> stage, query |-> "", batch |-> <<>>, before |-> <<>>,
     report |-> <<>>, notified |-> 0, new_count |-> 0, alerts |-> 0,
     alert_result |-> "none", count0 |-> exception_count]

\* a run of clean passes that starts at count; soft_from is the count before
\* the soft error that ended the pass before the run, -1 when there is none
StreakReset(count, soft_from) == [base |-> count, n |-> 0, soft_from |-> soft_from]

StreakAfterError(count, soft_from) ==
    IF "streak" \in env.track THEN StreakReset(count, soft_from) ELSE streak

\* one more clean pass in the run; a run of MaxStreak passes is closed and the
\* next one starts at the count it left
StreakAfterClean(count) ==
    IF "streak" \notin env.track THEN streak
    ELSE IF streak.n < MaxStreak
         THEN [streak EXCEPT !.n = @ + 1]
         ELSE StreakReset(count, -1)

\* the links of the blocks of a report
LinksIn(report) == {LinkOf(report[i]) : i \in 1..Len(report)}

\* hist after a step: alert says that the step made an alert attempt; sent are
\* the links of a report whose send_email returned, failed those of a report
\* whose send_email raised, both for query ("" when the step built no report).
\*   alerted:   an alert attempt was made in this step or before
\*   delivered: per query, the links of the reports whose send returned
\*   unsent:    per query, the links of reports whose send raised and that no
\*              later report of the query delivered
\*   resent:    the links this step delivered that were unsent before it
HistAfter(alert, query, sent, failed) ==
    LET unsent == "unsent" \in env.track /\ query # ""
    IN  [alerted   |-> IF "alerted" \in env.track
                       THEN hist.alerted \/ alert
                       ELSE hist.alerted,
         delivered |-> IF query = "" THEN hist.delivered
                       ELSE [hist.delivered EXCEPT ![query] = @ \cup sent],
         unsent    |-> IF unsent
                       THEN [hist.unsent EXCEPT ![query] = (@ \ sent) \cup failed]
                       ELSE hist.unsent,
         resent    |-> IF unsent THEN hist.unsent[query] \cap sent ELSE {}]

\* hist after an iteration that raised at point
HistAtRaise(alert, point) ==
    IF point.stage = "send_email"
    THEN HistAfter(alert, queries[qi], {},
                   LinksIn(gather_report(point.batch,
                                         SeenOf(seen, queries[qi])).report))
    ELSE HistAfter(alert, "", {}, {})

OfferedAfter(query, batch) ==
    IF "offered" \in env.track
    THEN [offered EXCEPT ![query] = @ \cup Range(batch)]
    ELSE offered

-----------------------------------------------------------------------------
(* The state after construction: main up to line 182 *)

\* no call of gather_report by itself
NoCall ==
    [n |-> -1, query_result |-> <<>>, seen |-> <<>>, arg |-> <<>>,
     report |-> <<>>, new_seen |-> <<>>, report2 |-> <<>>, new_seen2 |-> <<>>]

InitLoop(qs, e, settings) ==
    /\ queries = qs
    /\ seen = [q \in {} |-> <<>>]
    /\ exception_thresh \in {s * ThreshFactor : s \in settings}
    /\ exception_count = 0
    /\ pc = "check_ksl"
    /\ qi = 1
    /\ raised = "none"
    /\ env = e
    /\ last = [op |-> "init", stage |-> "", query |-> "", batch |-> <<>>,
               before |-> <<>>, report |-> <<>>, notified |-> 0, new_count |-> 0,
               alerts |-> 0, alert_result |-> "none", count0 |-> 0]
    /\ streak = StreakReset(0, -1)
    /\ offered = [q \in Range(qs) |-> {}]
    /\ hist = [alerted |-> FALSE,
               delivered |-> [q \in Range(qs) |-> {}],
               unsent |-> [q \in Range(qs) |-> {}],
               resent |-> {}]

InitWith(qs, e, settings) ==
    /\ InitLoop(qs, e, settings)
    /\ call = NoCall

-----------------------------------------------------------------------------
(* One iteration of the for loop of check_ksl, lines 102-115 *)

InPass == pc = "check_ksl" /\ qi <= Len(queries)

\* the batches find_elements() can return (line 106)
Batches == SeqsUpTo(env.links, env.maxBatch)

\* where an exception can be raised in the iteration for queries[qi]: in the
\* generator ksl.search (line 102), in find_elements (line 106) or in
\* send_email (line 112), which is called only with a report that is not empty
RaisePoints ==
    {[stage |-> st, batch |-> <<>>] : st \in {"search", "find_elements"}}
    \cup {[stage |-> "send_email", batch |-> b] :
            b \in {x \in Batches :
                     gather_report(x, SeenOf(seen, queries[qi])).report # <<>>}}

\* as a bug would have it: the pass fills a dict of its own, which is lost
\* when an exception leaves check_ksl
SeenAtRaise_Fresh(point) == [q \in {} |-> <<>>]

\* as a bug would have it: line 115 before line 112, the store before the send
SeenAtRaise_StoredFirst(point) ==
    IF point.stage = "search" THEN seen
    ELSE Store(WithKey(seen, queries[qi]), queries[qi],
               gather_report(point.batch, SeenOf(seen, queries[qi])).new_seen)

\* seen when the exception is raised: lines 103-104 have run unless the
\* generator raised; line 115 has not
SeenAtRaise(point) ==
    IF point.stage = "search" THEN seen ELSE WithKey(seen, queries[qi])

\* the history record of an iteration that raised at point
RaiseStep(op, point, alerts, alert_result) ==
    LET query  == queries[qi]
        seen_q == SeenOf(seen, query)
        r      == gather_report(point.batch, seen_q)
        sent   == point.stage = "send_email"
    IN  [op |-> op, stage |-> point.stage, query |-> query, batch |-> point.batch,
         before |-> seen_q, report |-> r.report,
         notified |-> IF sent THEN 1 ELSE 0,
         new_count |-> IF sent THEN NewCount(r.new_seen, seen_q) ELSE 0,
         alerts |-> alerts, alert_result |-> alert_result,
         count0 |-> exception_count]

OfferedAtRaise(point) ==
    IF point.stage = "send_email" THEN OfferedAfter(queries[qi], point.batch)
    ELSE offered

\* lines 102-115 with nothing raised: the key, the report, the email when the
\* report is not empty, the store
QueryOk ==
    /\ InPass
    /\ \E batch \in Batches :
         LET query  == queries[qi]
             seen1  == WithKey(seen, query)
             r      == gather_report(batch, seen1[query])
             notify == r.report # <<>>
         IN  /\ seen' = Store(seen1, query, r.new_seen)
             /\ last' = [op |-> "query", stage |-> "", query |-> query,
                         batch |-> batch, before |-> seen1[query],
                         report |-> r.report,
                         notified |-> IF notify THEN 1 ELSE 0,
                         new_count |-> IF notify
                                       THEN NewCount(r.new_seen, seen1[query])
                                       ELSE 0,
                         alerts |-> 0, alert_result |-> "none",
                         count0 |-> exception_count]
             /\ offered' = OfferedAfter(query, batch)
             /\ hist' = HistAfter(FALSE, query, LinksIn(r.report), {})
    /\ qi' = qi + 1
    /\ UNCHANGED <<queries, exception_thresh, exception_count, pc, raised, env, call, streak>>

-----------------------------------------------------------------------------
(* main, lines 183-219 *)

\* check_ksl returned: lines 185-191, then the sleep of line 219 begins
PassComplete ==
    /\ pc = "check_ksl"
    /\ qi = Len(queries) + 1
    /\ exception_count' \in AfterSuccess(exception_count)
    /\ pc' = "sleep"
    /\ last' = NoStep("complete", "")
    /\ hist' = HistAfter(FALSE, "", {}, {})
    /\ streak' = StreakAfterClean(exception_count')
    /\ UNCHANGED <<queries, seen, exception_thresh, qi, raised, env, call, offered>>

\* except socket.timeout, lines 196-199, then the sleep of line 219 begins
SocketTimeout ==
    /\ InPass
    /\ \E point \in RaisePoints :
         /\ seen' = SeenAtRaise(point)
         /\ last' = RaiseStep("soft", point, 0, "none")
         /\ offered' = OfferedAtRaise(point)
         /\ hist' = HistAtRaise(FALSE, point)
    /\ exception_count' = Kept(OnSoftError(exception_count))
    /\ pc' = "sleep"
    /\ streak' = StreakAfterError(exception_count', exception_count)
    /\ UNCHANGED <<queries, exception_thresh, qi, raised, env, call>>

\* except Exception, lines 200-218: the count, the alert attempt inside
\* try/except: pass (any outcome of the send is swallowed, an interrupt too),
\* then the re-raise of line 218 or the sleep of line 219
HardException ==
    /\ InPass
    /\ LET count == Kept(OnHardError(exception_count))
           due   == AlertDue(count, exception_thresh)
       IN  /\ exception_count' = count
           /\ \E point \in RaisePoints :
              \E outcome \in IF due THEN {"ok", "fail", "interrupt"} ELSE {"none"} :
                /\ seen' = SeenAtRaise(point)
                /\ last' = RaiseStep("hard", point, IF due THEN 1 ELSE 0, outcome)
                /\ offered' = OfferedAtRaise(point)
                /\ hist' = HistAtRaise(due, point)
           /\ pc' = IF Fatal(count) THEN "terminated" ELSE "sleep"
           /\ raised' = IF Fatal(count) THEN "Exception" ELSE raised
           /\ streak' = StreakAfterError(count, -1)
    /\ UNCHANGED <<queries, exception_thresh, qi, env, call>>

\* except KeyboardInterrupt: raise, lines 194-195
KeyboardInterruptInPass ==
    /\ InPass
    /\ \E point \in RaisePoints :
         /\ seen' = SeenAtRaise(point)
         /\ last' = RaiseStep("interrupt", point, 0, "none")
         /\ offered' = OfferedAtRaise(point)
         /\ hist' = HistAtRaise(FALSE, point)
    /\ pc' = "terminated"
    /\ raised' = "KeyboardInterrupt"
    /\ UNCHANGED <<queries, exception_thresh, exception_count, qi, env, call, streak>>

\* an interrupt during time.sleep, line 219, which no try encloses
KeyboardInterruptInSleep ==
    /\ pc = "sleep"
    /\ pc' = "terminated"
    /\ raised' = "KeyboardInterrupt"
    /\ last' = NoStep("interrupt", "sleep")
    /\ hist' = HistAfter(FALSE, "", {}, {})
    /\ UNCHANGED <<queries, seen, exception_thresh, exception_count, qi, env, call,
                   streak, offered>>

\* time.sleep returns and the while loop starts the next pass (lines 219, 183-185)
Sleep ==
    /\ pc = "sleep"
    /\ env.saturate \/ exception_count <= env.maxCount
    /\ pc' = "check_ksl"
    /\ qi' = 1
    /\ last' = NoStep("sleep", "")
    /\ hist' = HistAfter(FALSE, "", {}, {})
    /\ UNCHANGED <<queries, seen, exception_thresh, exception_count, raised, env, call,
                   streak, offered>>

-----------------------------------------------------------------------------
(* Specifications *)

\* two queries, two links, every outcome of every step
Init ==
    InitWith(<<"q1", "q2">>,
             [links |-> {"A", "B"}, maxBatch |-> MaxBatch,
              maxCount |-> MaxCountData, saturate |-> FALSE, track |-> {}],
             {1})

\* one query, one link: the accounting up to the fatal threshold and beyond
InitAcct ==
    InitWith(<<"q1">>,
             [links |-> {"A"}, maxBatch |-> 1,
              maxCount |-> MaxCount, saturate |-> FALSE,
              track |-> {"streak", "alerted"}],
             {DefaultEmailExceptions, 10, 11})

\* one query, three links: passes in which nothing fails
InitClean ==
    InitWith(<<"q1">>,
             [links |-> {"A", "B", "C"}, maxBatch |-> MaxBatchClean,
              maxCount |-> 0, saturate |-> FALSE, track |-> {"offered"}],
             {DefaultEmailExceptions})

\* one query, two links, every outcome of every step: what was sent and what
\* was not
InitSend ==
    InitWith(<<"q1">>,
             [links |-> {"A", "B"}, maxBatch |-> MaxBatchSend,
              maxCount |-> MaxCountData, saturate |-> FALSE,
              track |-> {"unsent"}],
             {1})

\* as InitAcct, with the counts from Ceiling on kept as Ceiling
InitFair ==
    InitWith(<<"q1">>,
             [links |-> {"A"}, maxBatch |-> 1,
              maxCount |-> MaxCount, saturate |-> TRUE, track |-> {}],
             {DefaultEmailExceptions})

\* gather_report by itself: every batch and every sequence over three links
InitGather ==
    /\ InitLoop(<<"q1">>,
                [links |-> {"A", "B", "C"}, maxBatch |-> MaxGather,
                 maxCount |-> 0, saturate |-> FALSE, track |-> {}],
                {DefaultEmailExceptions})
    /\ \E b \in SeqsUpTo({"A", "B", "C"}, MaxGather) :
       \E s \in SeqsUpTo({"A", "B", "C"}, MaxGather) :
         call = [NoCall EXCEPT !.n = 0, !.query_result = b, !.seen = s, !.arg = s]

\* gather_report(query_result, seen)
GatherFirst ==
    /\ call.n = 0
    /\ LET r == gather_report(call.query_result, call.seen)
       IN  call' = [call EXCEPT !.n = 1,
                                !.arg = SeenArgAfter(call.seen, r.new_seen),
                                !.report = r.report,
                                !.new_seen = r.new_seen]
    /\ UNCHANGED <<queries, seen, exception_thresh, exception_count, pc, qi,
                   raised, env, last, streak, offered, hist>>

\* gather_report again, on the same batch and the sequence the first call returned
GatherAgain ==
    /\ call.n = 1
    /\ LET r == gather_report(call.query_result, call.new_seen)
       IN  call' = [call EXCEPT !.n = 2,
                                !.report2 = r.report,
                                !.new_seen2 = r.new_seen]
    /\ UNCHANGED <<queries, seen, exception_thresh, exception_count, pc, qi,
                   raised, env, last, streak, offered, hist>>

NextGather ==
    \/ GatherFirst
    \/ GatherAgain

Next ==
    \/ QueryOk
    \/ PassComplete
    \/ SocketTimeout
    \/ HardException
    \/ KeyboardInterruptInPass
    \/ KeyboardInterruptInSleep
    \/ Sleep

NextClean ==
    \/ QueryOk
    \/ PassComplete
    \/ Sleep

Spec == Init /\ [][Next]_vars

SpecAcct == InitAcct /\ [][Next]_vars

SpecClean == InitClean /\ [][NextClean]_vars

SpecGather == InitGather /\ [][NextGather]_vars

SpecSend == InitSend /\ [][Next]_vars

\* the steps main takes by itself: every call of the loop returns or raises,
\* and time.sleep returns.  An interrupt is the user's to send or not.
Progress ==
    \/ QueryOk
    \/ PassComplete
    \/ SocketTimeout
    \/ HardException
    \/ Sleep

FairAcct == InitFair /\ [][Next]_vars /\ WF_vars(Progress)

-----------------------------------------------------------------------------
(* Properties *)

\* the links of the blocks of a report, in the order of the blocks
ReportLinks(report) == [i \in 1..Len(report) |-> LinkOf(report[i])]

\* the last step ran gather_report and acted on its report (lines 107-112)
Reported == last.op = "query" \/ last.stage = "send_email"

\* the links of the last batch that were not in the sequence passed in
NewLinks == Range(last.batch) \ Range(last.before)

\* an interrupt was delivered during the last step
InterruptDelivered == last.op = "interrupt" \/ last.alert_result = "interrupt"

\* C1: for every query, in every reachable state, the sequence seen[query]
\* holds no link twice, whatever the batches were (a batch may list a link
\* more than once).
C1_SeenHasNoDuplicates ==
    \A q \in DOMAIN seen :
        \A i, j \in 1..Len(seen[q]) : seen[q][i] = seen[q][j] => i = j

\* C2: there is no reachable state in which the loop sleeps or is in a pass
\* with exception_count above 100: a pass whose accounting leaves the count
\* above 100 terminates the loop.
C2_NoPollingAboveFatal ==
    pc \in {"sleep", "check_ksl"} => exception_count <= FatalThreshold

\* C3: an interrupt delivered during the search, a report send, the alert
\* send or the sleep leaves main as KeyboardInterrupt, the loop terminated,
\* and exception_count as it was when the interrupt arrived.
C3_InterruptAlwaysPropagates ==
    InterruptDelivered =>
        /\ pc = "terminated"
        /\ raised = "KeyboardInterrupt"
        /\ exception_count =
             IF last.op = "hard" THEN last.count0 + Penalty ELSE last.count0

\* C4: if from some pass on no pass completes cleanly (every pass ends in a
\* soft or a hard error), the loop eventually terminates.
C4_PersistentFailureTerminates ==
    (<>[](last.op # "complete")) => <>(pc = "terminated")

\* C5: when fetches and sends succeed, the report of a pass holds a link
\* exactly when the batch of the pass holds it and no batch of an earlier pass
\* of the query did: a link is reported in the first pass that returns it and
\* in no later one.
C5_ReportedOnFirstOfferOnly ==
    [][last'.op = "query" =>
         Range(ReportLinks(last'.report))
             = Range(last'.batch) \ offered[last'.query]]_vars

\* C5, reached: the second pass of the example, batch [A,B,C] on [A,B]
\* reports C alone and stores [A,B,C]
C5_Witness ==
    /\ last.op = "query"
    /\ last.before = <<"A", "B">>
    /\ last.batch = <<"A", "B", "C">>
    /\ last.report = <<Block("C")>>
    /\ seen[last.query] = <<"A", "B", "C">>

\* C6: the report holds exactly one block for each link of the batch that is
\* not in the sequence passed in, none for a link that is in it, and the
\* blocks are in the order of the batch.
C6_OneBlockPerNewLink ==
    Reported =>
        /\ \A link \in env.links :
             Occurrences(ReportLinks(last.report), link)
                 = IF link \in NewLinks THEN 1 ELSE 0
        /\ ReportLinks(last.report)
             = SelectSeq(last.batch, LAMBDA l : l \notin Range(last.before))

C8_HardErrorAccounting ==
    last.op = "hard" =>
        /\ exception_count = last.count0 + 10
        /\ last.alerts = IF exception_count > exception_thresh THEN 1 ELSE 0
        /\ (last.alert_result = "none") = (last.alerts = 0)
        /\ pc = IF exception_count > 100 THEN "terminated" ELSE "sleep"
        /\ raised = IF exception_count > 100 THEN "Exception" ELSE "none"

\* C8, reached: the alert send failed and the loop went to sleep
C8_Witness ==
    /\ last.op = "hard"
    /\ last.alert_result = "fail"
    /\ pc = "sleep"

\* C9: a pass that ends in a soft error adds exactly 10 to exception_count,
\* makes no alert attempt whatever the count, and goes to the sleep.
C9_SoftErrorAccounting ==
    last.op = "soft" =>
        /\ exception_count = last.count0 + 10
        /\ last.alerts = 0
        /\ last.alert_result = "none"
        /\ pc = "sleep"
        /\ raised = "none"

\* C9, reached: a soft error with the count above exception_thresh and above
\* 100, and the loop asleep
C9_Witness ==
    /\ last.op = "soft"
    /\ exception_count > exception_thresh
    /\ exception_count > FatalThreshold
    /\ pc = "sleep"

\* C10: exception_count is never negative; after N clean passes in a row that
\* started at count c it is max(0, c - N); a soft error at count c followed by
\* one clean pass leaves c + 10, then c + 10 - 1.
C10_CounterDecay ==
    /\ exception_count >= 0
    /\ exception_count = Max(0, streak.base - streak.n)
    /\ streak.soft_from >= 0 =>
         /\ streak.base = streak.soft_from + 10
         /\ streak.n = 1 => exception_count = streak.soft_from + 10 - 1

\* C10, reached: a run of clean passes longer than the count it started at
C10_Witness ==
    /\ streak.base > 0
    /\ streak.n > streak.base
    /\ exception_count = 0

\* C11: the loop is terminated only by an interrupt or by a hard error whose
\* accounting left exception_count above 100; after an error pass that left
\* the count at 100 or less, and after a clean pass, the loop is at the sleep
\* and the next pass can start.
C11_TerminatesOnlyOnInterruptOrFatal ==
    /\ pc = "terminated" =>
         \/ raised = "KeyboardInterrupt" /\ last.op = "interrupt"
         \/ /\ raised = "Exception"
            /\ last.op \in {"soft", "hard"}
            /\ exception_count > 100
    /\ (last.op \in {"soft", "hard"} /\ exception_count <= 100) =>
         pc = "sleep" /\ raised = "none" /\ ENABLED Sleep
    /\ last.op = "complete" =>
         pc = "sleep" /\ raised = "none"
                      /\ (exception_count <= 100 => ENABLED Sleep)

\* C11, reached: a hard error left the count at exactly 100 and the loop sleeps
C11_Witness ==
    /\ last.op = "hard"
    /\ exception_count = 100
    /\ pc = "sleep"

\* C12: for every batch and every sequence s, gather_report(batch, s) = (r, s2)
\* gives gather_report(batch, s2) = ("", s2); an empty batch gives ("", s);
\* and the list passed in holds s after the call.
C12_GatherIdempotent ==
    /\ call.n >= 1 =>
         /\ call.arg = call.seen
         /\ call.query_result = <<>> =>
              call.report = <<>> /\ call.new_seen = call.seen
    /\ call.n = 2 =>
         call.report2 = <<>> /\ call.new_seen2 = call.new_seen

\* C12, reached: a second call after a first one that reported two links on
\* a sequence that was not empty
C12_Witness ==
    /\ call.n = 2
    /\ call.seen # <<>>
    /\ Len(call.report) = 2
    /\ call.new_seen # call.seen

\* C13: in every step of the loop, for every query, the sequence seen[query]
\* before the step is a beginning of the one after it, and a key of seen
\* stays a key: links are appended, never removed or reordered.
C13_SeenGrowsByAppending ==
    [][\A q \in Range(queries) :
          /\ q \in DOMAIN seen => q \in DOMAIN seen'
          /\ IsPrefix(SeenOf(seen, q), SeenOf(seen', q))]_vars

\* C13, reached: the second query's sequence, not empty, got a link appended
C13_Witness ==
    /\ last.op = "query"
    /\ last.query = "q2"
    /\ last.before # <<>>
    /\ Len(seen["q2"]) > Len(last.before)
    /\ IsPrefix(last.before, seen["q2"])

\* the loop ended by the re-raise of line 218
TerminatedByAccumulation == pc = "terminated" /\ raised = "Exception"

\* C14: for every setting of the alert threshold, when the loop has
\* terminated by accumulation an alert attempt was made, in the terminating
\* pass or before.
C14_AlertBeforeFatal == TerminatedByAccumulation => hist.alerted

\* C14, amended: for every setting of at most 10 (exception_thresh at most
\* 100), when the loop has terminated by accumulation an alert attempt was
\* made in the terminating pass.
C14_AlertBeforeFatal_ThreshAtMost100 ==
    (exception_thresh <= FatalThreshold /\ TerminatedByAccumulation) =>
        hist.alerted /\ last.alerts = 1

\* C14, reached: setting 10, terminated at 110 with the alert attempt of the
\* terminating pass
C14_Witness ==
    /\ TerminatedByAccumulation
    /\ exception_thresh = 100
    /\ exception_count = 110
    /\ last.alerts = 1
    /\ hist.alerted

\* C15: a step in which the iteration for queries[qi] raises an accountable
\* exception ends the pass: the loop leaves check_ksl at that position, the
\* sequences of all the other queries (those stored earlier in the pass, and
\* the later ones) are what they were, and the count grows by 10, once.  A
\* query is fetched only at the position of the for loop, and a pass starts
\* at the first query.
C15_PassAbortedAtRaise ==
    [][/\ (pc = "check_ksl" /\ last'.op \in {"soft", "hard"}) =>
            /\ last'.query = queries[qi]
            /\ pc' \in {"sleep", "terminated"}
            /\ qi' = qi
            /\ \A k \in 1..Len(queries) :
                 k # qi =>
                    /\ (queries[k] \in DOMAIN seen') = (queries[k] \in DOMAIN seen)
                    /\ SeenOf(seen', queries[k]) = SeenOf(seen, queries[k])
            /\ exception_count' = exception_count + 10
       /\ (last'.op = "query" /\ last' # last) =>
            pc = "check_ksl" /\ last'.query = queries[qi] /\ qi' = qi + 1
       /\ (pc # "check_ksl" /\ pc' = "check_ksl") => qi' = 1]_vars

\* C15, reached: in the first pass the first query stored a link and the
\* second query raised in the search: the first query's sequence is kept and
\* the second query has no entry
C15_Witness ==
    /\ last.op \in {"soft", "hard"}
    /\ last.query = "q2"
    /\ exception_count = 10
    /\ "q1" \in DOMAIN seen
    /\ seen["q1"] # <<>>
    /\ "q2" \notin DOMAIN seen
    /\ pc = "sleep"

\* C16: every link of seen[query] was in a report of the query whose
\* send_email returned; when the send raises, the sequence of the query is
\* what it was, the failure is counted, and the links of the report stay to
\* be reported: an iteration that completes leaves no link of its batch unsent.
C16_NothingLost ==
    /\ \A q \in DOMAIN seen :
         /\ Range(seen[q]) \subseteq hist.delivered[q]
         /\ Range(seen[q]) \cap hist.unsent[q] = {}
    /\ (last.stage = "send_email" /\ last.op \in {"soft", "hard"}) =>
         /\ SeenOf(seen, last.query) = last.before
         /\ exception_count = last.count0 + 10
         /\ LinksIn(last.report) \subseteq hist.unsent[last.query]
    /\ last.op = "query" =>
         /\ Range(last.batch) \cap hist.unsent[last.query] = {}
         /\ hist.resent \subseteq LinksIn(last.report)

\* C16, reached: a report delivers two links whose earlier send had raised
C16_Witness ==
    /\ last.op = "query"
    /\ hist.resent = {"A", "B"}
    /\ last.before = <<>>
    /\ Range(seen[last.query]) = {"A", "B"}

====
